---- MODULE Spec2Model ----
(***************************************************************************)
(* The per-feed update pipeline of podsync (Updater.Update and the stages  *)
(* it calls: updateFeed, downloadEpisodes, buildXML, buildOPML, cleanup)   *)
(* as a state machine over the episode store (db) and the file storage     *)
(* (fs).  A collaborator call (store, file storage, downloader, segment    *)
(* lookup, transcoder) is a nondeterministic choice over its outcomes.     *)
(***************************************************************************)
EXTENDS Integers, Sequences, FiniteSets, TLC

\* ------------------------------------------------------------------ bounds

\* Episode IDs of the feed are 1..MaxEpisodes; the store walks them ascending.
MaxEpisodes == 3
\* feedConfig.PageSize ranges over 1..MaxPageSize.
MaxPageSize == 4
\* feedConfig.Clean.KeepLast ranges over 0..MaxKeepLast.
MaxKeepLast == 2
\* The segment service returns at most MaxSegments segments for a video, and
\* a media lasts MaxDuration time units (segment bounds are 0..MaxDuration).
MaxSegments == 2
MaxDuration == 4
\* Where two feeds are updated at once, each has the episodes 1..MaxFeedEpisodes.
MaxFeedEpisodes == 2

EpisodeIDs == 1..MaxEpisodes

\* ------------------------------------------------------- episodes (model.Episode)

EpisodeNew == "new"
EpisodeDownloaded == "downloaded"
EpisodeError == "error"
EpisodeCleaned == "cleaned"

\* What the remote listing carries for an episode: fixed per ID.
EpisodeTitle(id) == IF id % 2 = 0 THEN "ad" ELSE "talk"
EpisodeDescription(id) == IF id % 2 = 0 THEN "promo" ELSE "notes"
\* Publish timestamps are not in store order and may tie.
PubDate(id) == (2 * id) % 3
\* Bytes of the raw download of an episode, and of its trimmed rendition.
RawSize(id) == id + 1
ProcessedSize(id) == id

\* The videos the segment service holds segments for.
SegmentedVideos == {1}

\* An episode as the listing provider returns it (status New, nothing on disk).
RemoteEpisode(id) ==
    [Status |-> EpisodeNew, Title |-> EpisodeTitle(id),
     Description |-> EpisodeDescription(id), Size |-> 0]

\* The store holds no record under this ID.
NoEpisode == [Status |-> "absent", Title |-> "", Description |-> "", Size |-> 0]

\* IDs the store holds a record for.
Known(store) == {id \in EpisodeIDs : store[id].Status # "absent"}

\* ------------------------------------------------------------ configuration

SponsorblockModes == {"off", "require", "delay", "requiredelay"}

NoFilters == [Title |-> "", NotTitle |-> "", Description |-> "", NotDescription |-> ""]
FilterChoices == {NoFilters, [NoFilters EXCEPT !.NotTitle = "ad"]}

\* The fields of *config.Feed that downloadEpisodes reads.  cleanup reads
\* Clean.KeepLast alone, and no stage reads a field another stage reads, so
\* the model draws each stage's fields when Update calls the stage: the runs
\* are those of drawing the whole record when Update is called.
FeedConfigs ==
    [PageSize : 1..MaxPageSize, SponsorblockMode : SponsorblockModes,
     Filters : FilterChoices]

KeepLastChoices == 0..MaxKeepLast

\* The value of a configuration variable outside the stage that reads it.
NoConfig == [PageSize |-> 0, SponsorblockMode |-> "", Filters |-> NoFilters]

\* ------------------------------------------------------------------- state

VARIABLES
    feedConfig,     \* downloadEpisodes: the feedConfig it was called with
    keepLast,       \* cleanup: feedConfig.Clean.KeepLast, -1 before cleanup ran
    db,             \* episode store of the feed: ID -> episode record or NoEpisode
    fs,             \* file storage of the feed: ID -> size of its blob, 0 for none
    pc,             \* position of Update: idle, a stage, or done
    result,         \* what Update returned: none (running), ok, error
    stages,         \* stages of the current run that have returned, in order
    \* What a stage worked with stays readable until the next stage starts:
    listing,        \* updateFeed: IDs of the remote listing it merged
    removed,        \* updateFeed: IDs it deleted from the store
    downloadList,   \* downloadEpisodes: its queue, in store order
    idx,            \* downloadEpisodes: 1-based position in downloadList
    lastDownload,   \* downloadEpisodes: what Downloader.Download returned in the
                    \* last step of the loop, "none" if the step did not call it
    lastSegments,   \* downloadEpisodes: the segment lookup of the last step of the
                    \* loop: "none" (no lookup), "zero" or "some" segments
    lastDelayPassed, \* downloadEpisodes: delayPassed in the last step of the loop
    lastTranscode,  \* downloadEpisodes: how the trim of the last step of the loop
                    \* went, "none" if the step did not come to it
    tmpDirs,        \* downloadEpisodes: the episodes whose working directory
                    \* (ioutil.TempDir, 408) it created and that still exists
    pageSizeLeft,   \* downloadEpisodes: pageSize as the walk of 220-239 left it
    openFiles,      \* downloadEpisodes: the episodes whose TempFile (returned by
                    \* Downloader.Download) it has not closed
    freshFeed,      \* the store held no episode and the file storage no blob of
                    \* the feed when Update was called
    cleanupErrors,  \* IDs whose failure cleanup's aggregated error lists
    \* The trim branch of downloadEpisodes (374-502) on its own:
    segments,       \* what the segment service returned for the video
    keeps,          \* the time ranges to keep, <<start, end>>, end -1 for "to the end"
    filter,         \* the -filter_complex argument, as the sequence of its stages
    \* matchFilters (191-208) on its own:
    walked,         \* the episode it is called with
    matched,        \* what it returned
    \* Update called for two feeds at once, on the one store and file storage:
    feedDb,         \* the episode store: feed ID -> (episode ID -> record)
    feedFs,         \* the file storage: feed ID -> (episode ID -> size of its blob)
    updater,        \* per call of Update, by the ID of its feedConfig: where it
                    \* is (pc) and the locals of downloadEpisodes
    alone,          \* per feed, the store and the blobs its Update leaves when
                    \* its calls act on a store and a file storage of its own
    \* Update called again and again for one feed whose configuration and
    \* remote listing stay as they are:
    fixedConfig,    \* the *config.Feed every call reads
    fixedListing,   \* the remote listing every call fetches
    healthy,        \* from here on every call of the downloader, the store and
                    \* the file storage succeeds
    \* LoadConfig (config.go 199-220) on its own:
    cfgInput,       \* the Config as toml.Unmarshal left it
    cfg             \* the Config applyDefaults and validate work on

loopVars == <<lastDownload, lastSegments, lastDelayPassed, lastTranscode>>
trimVars == <<segments, keeps, filter>>
filterVars == <<walked, matched>>
feedVars == <<feedDb, feedFs, updater, alone>>
retryVars == <<fixedConfig, fixedListing, healthy>>
configVars == <<cfgInput, cfg>>

vars == <<feedConfig, keepLast, db, fs, pc, result, stages, listing, removed,
          downloadList, idx, lastDownload, lastSegments, lastDelayPassed, lastTranscode,
          tmpDirs, pageSizeLeft, openFiles, freshFeed, cleanupErrors, segments, keeps,
          filter, walked, matched,
          feedDb, feedFs, updater, alone, fixedConfig, fixedListing, healthy,
          cfgInput, cfg>>

\* No Update of two feeds at once is under way.
NoFeeds ==
    /\ feedDb = <<>>
    /\ feedFs = <<>>
    /\ updater = <<>>
    /\ alone = <<>>

\* No series of Update calls with a fixed configuration is under way.
NoRetry ==
    /\ fixedConfig = NoConfig
    /\ fixedListing = {}
    /\ healthy = FALSE

\* No configuration is being loaded.
NoLoad ==
    /\ cfgInput = <<>>
    /\ cfg = <<>>

Init ==
    /\ feedConfig = NoConfig
    /\ keepLast = -1
    /\ db = [id \in EpisodeIDs |-> NoEpisode]
    /\ fs = [id \in EpisodeIDs |-> 0]
    /\ pc = "idle"
    /\ result = "none"
    /\ stages = <<>>
    /\ listing = {}
    /\ removed = {}
    /\ downloadList = <<>>
    /\ idx = 0
    /\ lastDownload = "none"
    /\ lastSegments = "none"
    /\ lastDelayPassed = FALSE
    /\ lastTranscode = "none"
    /\ tmpDirs = {}
    /\ freshFeed = TRUE
    /\ pageSizeLeft = 0
    /\ openFiles = {}
    /\ cleanupErrors = {}
    /\ segments = <<>>
    /\ keeps = <<>>
    /\ filter = <<>>
    /\ walked = NoEpisode
    /\ matched = FALSE
    /\ NoFeeds
    /\ NoRetry
    /\ NoLoad

\* ------------------------------------------------------------ Update (84-116)

StageOrder == <<"updateFeed", "downloadEpisodes", "buildXML", "buildOPML", "cleanup">>

\* As UpdateNextPc, an error of buildXML being logged like cleanup's.
UpdateNextPcPastXML(stage, ok) ==
    CASE stage = "updateFeed" -> IF ok THEN "downloadEpisodes" ELSE "done"
      [] stage = "downloadEpisodes" -> IF ok THEN "buildXML" ELSE "done"
      [] stage = "buildXML" -> "buildOPML"
      [] stage = "buildOPML" -> IF ok THEN "cleanup" ELSE "done"
      [] stage = "cleanup" -> "done"

\* Where Update goes when a stage returns: an error of any stage but cleanup
\* is wrapped and returned, cleanup's error is only logged.
UpdateNextPc(stage, ok) ==
    CASE stage = "updateFeed" -> IF ok THEN "downloadEpisodes" ELSE "done"
      [] stage = "downloadEpisodes" -> IF ok THEN "buildXML" ELSE "done"
      [] stage = "buildXML" -> IF ok THEN "buildOPML" ELSE "done"
      [] stage = "buildOPML" -> IF ok THEN "cleanup" ELSE "done"
      [] stage = "cleanup" -> "done"

\* As UpdateResult, cleanup's error being returned like the others.
UpdateResultCleanupFatal(stage, ok) ==
    IF ok THEN (IF stage = "cleanup" THEN "ok" ELSE "none") ELSE "error"

\* What Update has returned when a stage returns ("none": it goes on).
UpdateResult(stage, ok) ==
    IF stage = "cleanup" THEN "ok"
    ELSE IF ok THEN "none" ELSE "error"

\* A stage returns to Update.
StageReturns(stage, ok) ==
    /\ pc' = UpdateNextPc(stage, ok)
    /\ result' = UpdateResult(stage, ok)
    /\ stages' = Append(stages, [name |-> stage, ok |-> ok])

\* Update is called for the feed (again, once the previous call returned).
Update ==
    /\ pc \in {"idle", "done"}
    /\ pc' = "updateFeed"
    /\ result' = "none"
    /\ stages' = <<>>
    /\ listing' = {}
    /\ removed' = {}
    /\ downloadList' = <<>>
    /\ idx' = 0
    /\ lastDownload' = "none"
    /\ lastSegments' = "none"
    /\ lastDelayPassed' = FALSE
    /\ lastTranscode' = "none"
    /\ tmpDirs' = {}
    /\ pageSizeLeft' = 0
    /\ openFiles' = {}
    /\ freshFeed' = (Known(db) = {} /\ \A id \in EpisodeIDs : fs[id] = 0)
    /\ cleanupErrors' = {}
    /\ feedConfig' = NoConfig
    /\ keepLast' = -1
    /\ UNCHANGED <<db, fs>>
    /\ UNCHANGED <<trimVars, filterVars, feedVars, retryVars, configVars>>

\* -------------------------------------------------------- updateFeed (119-174)

\* As RemovalCandidates, the test of 147 sparing Cleaned episodes only.
RemovalCandidatesSparingCleaned(store) ==
    {id \in Known(store) : store[id].Status # EpisodeCleaned}

\* The removal candidates: the snapshot taken before the merge (145-153).
RemovalCandidates(store) ==
    {id \in Known(store) :
        store[id].Status # EpisodeDownloaded /\ store[id].Status # EpisodeCleaned}

\* db.AddFeed: an unknown episode of the listing is inserted as the provider
\* returned it, a known one keeps its record.
AddFeed(store, remote) ==
    [id \in EpisodeIDs |->
        IF id \in remote /\ id \notin Known(store) THEN RemoteEpisode(id) ELSE store[id]]

\* As ToRemove, without the loop of 159-161.
ToRemoveListedToo(store, remote) == RemovalCandidates(store)

\* The candidates left once every listed ID is struck out (159-161).
ToRemove(store, remote) == RemovalCandidates(store) \ remote

\* db.DeleteEpisode for each ID of gone.
DeleteEpisodes(store, gone) ==
    [id \in EpisodeIDs |-> IF id \in gone THEN NoEpisode ELSE store[id]]

\* The store after an updateFeed in which every call succeeded.
Reconcile(store, remote) ==
    DeleteEpisodes(AddFeed(store, remote), ToRemove(store, remote))

\* updateFeed, the remote listing being one of listings.
UpdateFeedFrom(listings) ==
    /\ pc = "updateFeed"
    /\ \/ \* the listing could not be fetched, or the store failed before or
          \* in the merge: nothing is written
          /\ UNCHANGED <<db, listing, removed>>
          /\ StageReturns("updateFeed", FALSE)
       \/ \* every call succeeded
          \E remote \in listings :
             /\ db' = Reconcile(db, remote)
             /\ listing' = remote
             /\ removed' = ToRemove(db, remote)
             /\ StageReturns("updateFeed", TRUE)
       \/ \* a DeleteEpisode failed after some (any, the set is walked in map
          \* order) of the others were deleted
          \E remote \in listings :
             /\ ToRemove(db, remote) # {}
             /\ \E gone \in (SUBSET ToRemove(db, remote)) \ {ToRemove(db, remote)} :
                  /\ db' = DeleteEpisodes(AddFeed(db, remote), gone)
                  /\ removed' = gone
             /\ listing' = remote
             /\ StageReturns("updateFeed", FALSE)
    /\ UNCHANGED <<feedConfig, keepLast, fs, downloadList, idx, loopVars, tmpDirs,
                   freshFeed, pageSizeLeft, openFiles, cleanupErrors>>
    /\ UNCHANGED <<trimVars, filterVars, feedVars, retryVars, configVars>>

\* updateFeed, the remote listing being any set of episodes.
UpdateFeed == UpdateFeedFrom(SUBSET EpisodeIDs)

\* ------------------------------------------------------ filters (176-208)

\* regexp.MatchString on the patterns and texts of this model: "(" does not
\* compile, any other pattern matches the text it spells.
MatchString(pattern, str) ==
    [err |-> pattern = "(", matched |-> pattern # "(" /\ pattern = str]

\* As matchRegexpFilter, a pattern that does not compile excluding the episode.
matchRegexpFilterStrict(pattern, str, negative) ==
    IF pattern # ""
    THEN LET m == MatchString(pattern, str)
         IN  IF m.err THEN FALSE
             ELSE IF m.matched = negative THEN FALSE ELSE TRUE
    ELSE TRUE

matchRegexpFilter(pattern, str, negative) ==
    IF pattern # ""
    THEN LET m == MatchString(pattern, str)
         IN  IF m.err THEN TRUE
             ELSE IF m.matched = negative THEN FALSE ELSE TRUE
    ELSE TRUE

matchFilters(episode, filters) ==
    IF ~matchRegexpFilter(filters.Title, episode.Title, FALSE) THEN FALSE
    ELSE IF ~matchRegexpFilter(filters.NotTitle, episode.Title, TRUE) THEN FALSE
    ELSE IF ~matchRegexpFilter(filters.Description, episode.Description, FALSE) THEN FALSE
    ELSE IF ~matchRegexpFilter(filters.NotDescription, episode.Description, TRUE) THEN FALSE
    ELSE TRUE

\* The patterns and the texts matchFilters is run on: no pattern, one that
\* does not compile, and the two texts as patterns.
Patterns == {"", "(", "ad", "talk"}
Texts == {"ad", "talk"}

\* matchFilters is called with an episode of the walk and feedConfig.Filters.
FilterInit ==
    /\ feedConfig \in [Filters : [Title : Patterns, NotTitle : Patterns,
                                  Description : Patterns, NotDescription : Patterns]]
    /\ walked \in [Status : {EpisodeNew}, Title : Texts, Description : Texts, Size : {0}]
    /\ matched = FALSE
    /\ NoFeeds
    /\ NoRetry
    /\ NoLoad
    /\ pc = "matchFilters"
    /\ segments = <<>>
    /\ keeps = <<>>
    /\ filter = <<>>
    /\ keepLast = -1
    /\ db = [id \in EpisodeIDs |-> NoEpisode]
    /\ fs = [id \in EpisodeIDs |-> 0]
    /\ result = "none"
    /\ stages = <<>>
    /\ listing = {}
    /\ removed = {}
    /\ downloadList = <<>>
    /\ idx = 0
    /\ lastDownload = "none"
    /\ lastSegments = "none"
    /\ lastDelayPassed = FALSE
    /\ lastTranscode = "none"
    /\ tmpDirs = {}
    /\ freshFeed = TRUE
    /\ pageSizeLeft = 0
    /\ openFiles = {}
    /\ cleanupErrors = {}

\* 191-208.
MatchFiltersStep ==
    /\ pc = "matchFilters"
    /\ matched' = matchFilters(walked, feedConfig.Filters)
    /\ pc' = "matchFiltersReturned"
    /\ UNCHANGED <<feedConfig, keepLast, db, fs, result, stages, listing, removed,
                   downloadList, idx, loopVars, tmpDirs, freshFeed, pageSizeLeft, openFiles, cleanupErrors, trimVars,
                   walked, feedVars, retryVars, configVars>>

FilterNext == MatchFiltersStep

FilterSpec == FilterInit /\ [][FilterNext]_vars

\* -------------------------------------------------- downloadEpisodes (210-520)

ErrTooManyRequests == "ErrTooManyRequests"

\* The WalkEpisodes callback of 220-239 over the IDs from id on, in store
\* order, pageSize being the budget left when id is visited.
RECURSIVE WalkDownloadList(_, _, _, _)
WalkDownloadList(store, config, id, pageSize) ==
    IF id > MaxEpisodes THEN <<>>
    ELSE IF id \notin Known(store)
    THEN WalkDownloadList(store, config, id + 1, pageSize)
    ELSE IF store[id].Status # EpisodeNew /\ store[id].Status # EpisodeError
    THEN WalkDownloadList(store, config, id + 1, pageSize)
    ELSE IF ~matchFilters(store[id], config.Filters)
    THEN WalkDownloadList(store, config, id + 1, pageSize)
    ELSE IF pageSize - 1 <= 0
    THEN WalkDownloadList(store, config, id + 1, pageSize - 1)
    ELSE <<id>> \o WalkDownloadList(store, config, id + 1, pageSize - 1)

BuildDownloadList(store, config) == WalkDownloadList(store, config, 1, config.PageSize)

\* As WalkPageSize, pageSize-- coming before the call of matchFilters.
RECURSIVE WalkPageSizeBeforeFilters(_, _, _, _)
WalkPageSizeBeforeFilters(store, config, id, pageSize) ==
    IF id > MaxEpisodes THEN pageSize
    ELSE IF id \notin Known(store)
    THEN WalkPageSizeBeforeFilters(store, config, id + 1, pageSize)
    ELSE IF store[id].Status # EpisodeNew /\ store[id].Status # EpisodeError
    THEN WalkPageSizeBeforeFilters(store, config, id + 1, pageSize)
    ELSE WalkPageSizeBeforeFilters(store, config, id + 1, pageSize - 1)

\* pageSize when the WalkEpisodes callback of 220-239 has run over the IDs
\* from id on, pageSize being its value when id is visited.
RECURSIVE WalkPageSize(_, _, _, _)
WalkPageSize(store, config, id, pageSize) ==
    IF id > MaxEpisodes THEN pageSize
    ELSE IF id \notin Known(store)
    THEN WalkPageSize(store, config, id + 1, pageSize)
    ELSE IF store[id].Status # EpisodeNew /\ store[id].Status # EpisodeError
    THEN WalkPageSize(store, config, id + 1, pageSize)
    ELSE IF ~matchFilters(store[id], config.Filters)
    THEN WalkPageSize(store, config, id + 1, pageSize)
    ELSE WalkPageSize(store, config, id + 1, pageSize - 1)

\* As MarkDownloaded, without the assignment of episode.Size.
MarkDownloadedKeepingSize(store, id, size) ==
    [store EXCEPT ![id].Status = EpisodeDownloaded]

\* The UpdateEpisode callbacks of 269-273 and 507-511, and of 353-356.
MarkDownloaded(store, id, size) ==
    [store EXCEPT ![id].Size = size, ![id].Status = EpisodeDownloaded]

MarkError(store, id) == [store EXCEPT ![id].Status = EpisodeError]

\* As OnDownloadError, without the test of 348.
OnDownloadErrorMarkAlways(err) == "markError"

\* As OnDownloadError, every error ending the batch.
OnDownloadErrorBreakAlways(err) == "break"

\* What the loop does with an error of Downloader.Download (344-361).
OnDownloadError(err) == IF err = ErrTooManyRequests THEN "break" ELSE "markError"

\* len(segments) == 0 after the lookup of 303-327: no lookup in mode off;
\* otherwise none when the request fails or the service holds no segments
\* for the video, some when it holds segments and answers.
SegmentLookup(mode, id) ==
    IF mode # "off" /\ id \in SegmentedVideos THEN BOOLEAN ELSE {TRUE}

\* As Deferred, the mode requiredelay not reading delayPassed.
DeferredIgnoringDelay(mode, noSegments, delayPassed) ==
    \/ mode = "require" /\ noSegments
    \/ mode = "requiredelay" /\ noSegments

\* The deferrals of 329-336.
Deferred(mode, noSegments, delayPassed) ==
    \/ mode = "require" /\ noSegments
    \/ mode = "requiredelay" /\ noSegments /\ ~delayPassed

\* The episode the loop is at.
Candidate == downloadList[idx]

\* continue, or the end of the loop and `return nil` (518-519).
NextCandidate ==
    IF idx < Len(downloadList)
    THEN idx' = idx + 1 /\ UNCHANGED <<pc, result, stages>>
    ELSE idx' = idx /\ StageReturns("downloadEpisodes", TRUE)

\* `return err` out of the loop.
ReturnError == idx' = idx /\ StageReturns("downloadEpisodes", FALSE)

\* break (350): the loop ends, downloadEpisodes returns nil.
Break == idx' = idx /\ StageReturns("downloadEpisodes", TRUE)

\* The walk that builds the download list (220-253), feedConfig being one of
\* configs.
DownloadEpisodesWith(configs) ==
    /\ pc = "downloadEpisodes"
    /\ \E config \in configs :
        /\ feedConfig' = config
        /\ \/ \* WalkEpisodes failed
              /\ StageReturns("downloadEpisodes", FALSE)
              /\ UNCHANGED <<downloadList, idx, pageSizeLeft>>
           \/ /\ BuildDownloadList(db, config) = <<>>
              /\ pageSizeLeft' = WalkPageSize(db, config, 1, config.PageSize)
              /\ StageReturns("downloadEpisodes", TRUE)
              /\ UNCHANGED <<downloadList, idx>>
           \/ /\ BuildDownloadList(db, config) # <<>>
              /\ downloadList' = BuildDownloadList(db, config)
              /\ pageSizeLeft' = WalkPageSize(db, config, 1, config.PageSize)
              /\ idx' = 1
              /\ pc' = "downloading"
              /\ UNCHANGED <<result, stages>>
    /\ listing' = {}
    /\ removed' = {}
    /\ UNCHANGED <<keepLast, db, fs, loopVars, tmpDirs, freshFeed, openFiles, cleanupErrors>>
    /\ UNCHANGED <<trimVars, filterVars, feedVars, retryVars, configVars>>

\* downloadEpisodes, feedConfig being any configuration.
DownloadEpisodes == DownloadEpisodesWith(FeedConfigs)

\* The step of the loop ends before the segment lookup and the download.
NothingFetched ==
    /\ lastDownload' = "none"
    /\ lastSegments' = "none"
    /\ lastDelayPassed' = FALSE
    /\ lastTranscode' = "none"

\* fs.Size found the blob (264-278).
EpisodeExists ==
    /\ pc = "downloading"
    /\ fs[Candidate] > 0
    /\ \/ /\ db' = MarkDownloaded(db, Candidate, fs[Candidate])
          /\ NextCandidate
       \/ \* UpdateEpisode failed
          /\ UNCHANGED db
          /\ ReturnError
    /\ NothingFetched
    /\ UNCHANGED <<feedConfig, keepLast, fs, listing, removed, downloadList, tmpDirs,
                   freshFeed, pageSizeLeft, openFiles, cleanupErrors>>
    /\ UNCHANGED <<trimVars, filterVars, feedVars, retryVars, configVars>>

\* fs.Size failed with an error other than "not exist" (281-284).
StatFails ==
    /\ pc = "downloading"
    /\ ReturnError
    /\ NothingFetched
    /\ UNCHANGED <<feedConfig, keepLast, db, fs, listing, removed, downloadList,
                   tmpDirs, freshFeed, pageSizeLeft, openFiles, cleanupErrors>>
    /\ UNCHANGED <<trimVars, filterVars, feedVars, retryVars, configVars>>

\* delayPassed (295-296) where the mode makes the loop read it for more
\* than a log line; it is computed and unused in the modes off and require.
DelayChoices(mode) == IF mode \in {"delay", "requiredelay"} THEN BOOLEAN ELSE {FALSE}

\* What lastSegments records of the lookup of 303-327.
SegmentsFound(mode, noSegments) ==
    IF mode = "off" THEN "none" ELSE IF noSegments THEN "zero" ELSE "some"

\* The candidate is downloaded and len(segments) == 0: the raw file is copied
\* to the file storage (363-373), then the status is written (507-513).
CopyRaw ==
    /\ lastTranscode' = "none"
    /\ UNCHANGED <<tmpDirs, openFiles>>
    /\ \/ \* fs.Create failed
          /\ UNCHANGED <<db, fs>>
          /\ ReturnError
       \/ /\ fs' = [fs EXCEPT ![Candidate] = RawSize(Candidate)]
          /\ \/ db' = MarkDownloaded(db, Candidate, RawSize(Candidate)) /\ NextCandidate
             \/ UNCHANGED db /\ ReturnError

\* The trim branch calls tempFile.Close() (483, after cmd.Wait; again at 497)
\* on the paths that come to cmd.Wait; the returns of 410 (ioutil.TempDir
\* failed) and 479 (cmd.Start failed) come before it.
ClosedInTrim(outcome) == outcome \notin {"tempDirFails", "startFails"}

\* openFiles when the trim branch is left with this outcome.
OpenAfterTrim(outcome) ==
    IF ClosedInTrim(outcome) THEN openFiles ELSE openFiles \cup {Candidate}

\* The candidate is downloaded and there are segments: the working directory
\* (408-411), ffmpeg (468-487), the copy of its output (492-501), then the
\* status write (507-513).  Nothing removes the working directory (the defer
\* of 412-419 is commented out).
Trim ==
    \/ \* ioutil.TempDir failed
       /\ lastTranscode' = "tempDirFails"
       /\ openFiles' = OpenAfterTrim("tempDirFails")
       /\ UNCHANGED <<db, fs, tmpDirs>>
       /\ ReturnError
    \/ /\ tmpDirs' = tmpDirs \cup {Candidate}
       /\ \/ \* cmd.Start or cmd.Wait failed, or the output could not be copied
             /\ \E failure \in {"startFails", "runFails", "copyFails"} :
                   /\ lastTranscode' = failure
                   /\ openFiles' = OpenAfterTrim(failure)
             /\ UNCHANGED <<db, fs>>
             /\ ReturnError
          \/ /\ lastTranscode' = "ok"
             /\ openFiles' = OpenAfterTrim("ok")
             /\ fs' = [fs EXCEPT ![Candidate] = ProcessedSize(Candidate)]
             /\ \/ db' = MarkDownloaded(db, Candidate, ProcessedSize(Candidate)) /\ NextCandidate
                \/ UNCHANGED db /\ ReturnError

\* No blob yet: the segment lookup (295-327), the deferrals (329-336), the
\* download (343-361), the copy or the trim (363-502) and the status write
\* (507-513).  noSegments is len(segments) == 0 after the lookup.
FetchEpisode ==
    /\ pc = "downloading"
    /\ fs[Candidate] = 0
    /\ \E delayPassed \in DelayChoices(feedConfig.SponsorblockMode),
          noSegments \in SegmentLookup(feedConfig.SponsorblockMode, Candidate) :
        /\ lastDelayPassed' = delayPassed
        /\ lastSegments' = SegmentsFound(feedConfig.SponsorblockMode, noSegments)
        /\ IF Deferred(feedConfig.SponsorblockMode, noSegments, delayPassed)
           THEN /\ NextCandidate
                /\ lastDownload' = "none"
                /\ lastTranscode' = "none"
                /\ UNCHANGED <<db, fs, tmpDirs, openFiles>>
           ELSE \/ \E err \in {ErrTooManyRequests, "error"} :
                     /\ lastDownload' = err
                     /\ lastTranscode' = "none"
                     /\ UNCHANGED <<fs, tmpDirs, openFiles>>
                     /\ IF OnDownloadError(err) = "break"
                        THEN UNCHANGED db /\ Break
                        ELSE \/ db' = MarkError(db, Candidate) /\ NextCandidate
                             \/ UNCHANGED db /\ ReturnError
                \/ /\ lastDownload' = "ok"
                   /\ IF noSegments THEN CopyRaw ELSE Trim
    /\ UNCHANGED <<feedConfig, keepLast, listing, removed, downloadList, freshFeed, pageSizeLeft,
                   cleanupErrors>>
    /\ UNCHANGED <<trimVars, filterVars, feedVars, retryVars, configVars>>

\* ------------------------------------- the trim branch (374-502) on its own

\* The categories the lookup of 304 asks for.
Categories ==
    {"sponsor", "intro", "outro", "interaction", "selfpromo", "music_offtopic"}

\* feedConfig.SponsorBlockCategories: every category cut, the defaults of
\* applyDefaults, every category kept.
AllCut ==
    [Sponsors |-> "cut", Intermissions |-> "cut", Endcards |-> "cut",
     InteractionReminders |-> "cut", SelfPromotions |-> "cut", NonmusicSections |-> "cut"]
DefaultCategories ==
    [Sponsors |-> "cut", Intermissions |-> "keep", Endcards |-> "keep",
     InteractionReminders |-> "keep", SelfPromotions |-> "keep", NonmusicSections |-> "cut"]
AllKeep ==
    [Sponsors |-> "keep", Intermissions |-> "keep", Endcards |-> "keep",
     InteractionReminders |-> "keep", SelfPromotions |-> "keep", NonmusicSections |-> "keep"]

FormatAudio == "audio"
FormatVideo == "video"

\* The fields of *config.Feed the trim branch reads.
TrimConfigs ==
    [SponsorBlockCategories : {AllCut, DefaultCategories, AllKeep},
     Format : {FormatAudio, FormatVideo}]

\* A segment as the service returns it: Segment is <<start, end>>.
Segments ==
    [Segment : {r \in (0..MaxDuration) \X (0..MaxDuration) : r[1] < r[2]},
     Category : Categories]

\* Segment lists that are in ascending start order and pairwise disjoint.
AscendingDisjoint(list) ==
    \A i \in 1..(Len(list) - 1) : list[i].Segment[2] <= list[i + 1].Segment[1]

SegmentLists ==
    UNION {{list \in [1..n -> Segments] : AscendingDisjoint(list)} : n \in 0..MaxSegments}

\* As SkippedSegment, no category policy consulted: every segment is cut.
SkippedNever(segment, c) == FALSE

\* The six tests of 384-401: the segment is left in the media.
SkippedSegment(segment, c) ==
    \/ segment.Category = "sponsor" /\ c.Sponsors = "keep"
    \/ segment.Category = "intro" /\ c.Intermissions = "keep"
    \/ segment.Category = "outro" /\ c.Endcards = "keep"
    \/ segment.Category = "interaction" /\ c.InteractionReminders = "keep"
    \/ segment.Category = "selfpromo" /\ c.SelfPromotions = "keep"
    \/ segment.Category = "music_offtopic" /\ c.NonmusicSections = "keep"

\* As KeepEnd, a keep ending where the segment ends.
KeepEndAtSegmentEnd(segment) == segment.Segment[2]

\* Where the keep before a cut segment ends (402).
KeepEnd(segment) == segment.Segment[1]

\* The loop of 383-404 over list, nextStart as the loop holds it, and the
\* final keep of 405.
RECURSIVE KeepsFrom(_, _, _)
KeepsFrom(list, c, nextStart) ==
    IF list = <<>> THEN << <<nextStart, -1>> >>
    ELSE IF SkippedSegment(Head(list), c)
    THEN KeepsFrom(Tail(list), c, nextStart)
    ELSE << <<nextStart, KeepEnd(Head(list))>> >>
            \o KeepsFrom(Tail(list), c, Head(list).Segment[2])

\* keeps as 380-405 build it.
PlanKeeps(list, c) == KeepsFrom(list, c, 0)

\* As EmitEnd, a keep ending at 0 taken for "to the end".
EmitEndIfPositive(end) == end > 0

\* The test of 435 and 441: the stage gets an end bound.
EmitEnd(end) == end >= 0

\* One trim stage of the filter (434-438 for audio, 440-444 for video):
\* "[0:a]atrim=start=S:end=E,asetpts=PTS-STARTPTS[s<i>a];".
TrimStage(stream, i, keep) ==
    [Op |-> IF stream = "a" THEN "atrim" ELSE "trim",
     Input |-> <<0, stream>>,
     Args |-> << <<"start", keep[1]>> >>
                \o (IF EmitEnd(keep[2]) THEN << <<"end", keep[2]>> >> ELSE <<>>),
     Label |-> <<"s", i, stream>>]

\* The stages the loop of 431-455 appends to filter from index i (0-based) on.
RECURSIVE TrimStages(_, _, _)
TrimStages(list, format, i) ==
    IF i >= Len(list) THEN <<>>
    ELSE << TrimStage("a", i, list[i + 1]) >>
            \o (IF format # FormatAudio THEN << TrimStage("v", i, list[i + 1]) >> ELSE <<>>)
            \o TrimStages(list, format, i + 1)

\* finalFilter: the labels the loop collects (445, 447).
RECURSIVE FinalFilter(_, _, _)
FinalFilter(list, format, i) ==
    IF i >= Len(list) THEN <<>>
    ELSE (IF format # FormatAudio THEN << <<"s", i, "v">> >> ELSE <<>>)
            \o << <<"s", i, "a">> >>
            \o FinalFilter(list, format, i + 1)

\* The concatenation stage (456-460).
ConcatStage(list, format) ==
    [Op |-> "concat",
     Input |-> FinalFilter(list, format, 0),
     Args |-> << <<"n", Len(list)>>,
                 <<"v", IF format = FormatAudio THEN 0 ELSE 1>>,
                 <<"a", 1>> >>,
     Label |-> (IF format # FormatAudio THEN <<"outv">> ELSE <<>>) \o <<"outa">>]

\* filter as 429-460 build it.
BuildFilter(list, format) ==
    TrimStages(list, format, 0) \o << ConcatStage(list, format) >>

\* The segment lookup returned segments for a downloaded episode.
TrimInit ==
    /\ feedConfig \in TrimConfigs
    /\ segments \in SegmentLists
    /\ keeps = <<>>
    /\ filter = <<>>
    /\ walked = NoEpisode
    /\ matched = FALSE
    /\ NoFeeds
    /\ NoRetry
    /\ NoLoad
    /\ pc = "planKeeps"
    /\ keepLast = -1
    /\ db = [id \in EpisodeIDs |-> NoEpisode]
    /\ fs = [id \in EpisodeIDs |-> 0]
    /\ result = "none"
    /\ stages = <<>>
    /\ listing = {}
    /\ removed = {}
    /\ downloadList = <<>>
    /\ idx = 0
    /\ lastDownload = "ok"
    /\ lastSegments = "some"
    /\ lastDelayPassed = FALSE
    /\ lastTranscode = "none"
    /\ tmpDirs = {}
    /\ freshFeed = TRUE
    /\ pageSizeLeft = 0
    /\ openFiles = {}
    /\ cleanupErrors = {}

\* 380-405.
PlanKeepsStep ==
    /\ pc = "planKeeps"
    /\ keeps' = PlanKeeps(segments, feedConfig.SponsorBlockCategories)
    /\ pc' = "buildFilter"
    /\ UNCHANGED <<feedConfig, keepLast, db, fs, result, stages, listing, removed,
                   downloadList, idx, loopVars, tmpDirs, freshFeed, pageSizeLeft, openFiles, cleanupErrors, segments, filter,
                   walked, matched, feedVars, retryVars, configVars>>

\* 429-460.
BuildFilterStep ==
    /\ pc = "buildFilter"
    /\ filter' = BuildFilter(keeps, feedConfig.Format)
    /\ pc' = "ffmpeg"
    /\ UNCHANGED <<feedConfig, keepLast, db, fs, result, stages, listing, removed,
                   downloadList, idx, loopVars, tmpDirs, freshFeed, pageSizeLeft, openFiles, cleanupErrors, segments, keeps,
                   walked, matched, feedVars, retryVars, configVars>>

TrimNext == PlanKeepsStep \/ BuildFilterStep

TrimSpec == TrimInit /\ [][TrimNext]_vars

\* ------------------------------------------- buildXML, buildOPML (522-565)

BuildXML ==
    /\ pc = "buildXML"
    /\ \E ok \in BOOLEAN : StageReturns("buildXML", ok)
    /\ downloadList' = <<>>
    /\ idx' = 0
    /\ NothingFetched
    /\ tmpDirs' = {}
    /\ feedConfig' = NoConfig
    /\ pageSizeLeft' = 0
    /\ openFiles' = {}
    /\ UNCHANGED <<keepLast, db, fs, listing, removed, freshFeed, cleanupErrors>>
    /\ UNCHANGED <<trimVars, filterVars, feedVars, retryVars, configVars>>

BuildOPML ==
    /\ pc = "buildOPML"
    /\ \E ok \in BOOLEAN : StageReturns("buildOPML", ok)
    /\ UNCHANGED <<feedConfig, keepLast, db, fs, listing, removed, downloadList, idx,
                   loopVars, tmpDirs, freshFeed, pageSizeLeft, openFiles, cleanupErrors>>
    /\ UNCHANGED <<trimVars, filterVars, feedVars, retryVars, configVars>>

\* ------------------------------------------------------------ cleanup (567-619)

\* The order sort.Slice may leave list in: newest publish date first, episodes
\* of equal date in any order (595-597).
SortedByPubDate(list) ==
    {order \in [1..Cardinality(list) -> list] :
        /\ \A i, j \in DOMAIN order : i # j => order[i] # order[j]
        /\ \A i, j \in DOMAIN order : i < j => PubDate(order[i]) >= PubDate(order[j])}

\* As Excess, the slice being list[:len(list)-count].
ExcessFromHead(order, count) == {order[i] : i \in 1..(Len(order) - count)}

\* list[count:] (599).
Excess(order, count) == {order[i] : i \in (count + 1)..Len(order)}

\* The loop of 599-616 under the outcomes of its calls: per excess episode
\* "ok", "deleteFails" (fs.Delete) or "updateFails" (db.UpdateEpisode).
BlobsDeleted(order, count, outcome) ==
    {id \in Excess(order, count) : outcome[id] # "deleteFails"}

\* As EpisodesCleaned, the loop returning at the first failure.
EpisodesCleanedUntilFailure(order, count, outcome) ==
    {order[i] : i \in {j \in (count + 1)..Len(order) :
                        \A k \in (count + 1)..j : outcome[order[k]] = "ok"}}

EpisodesCleaned(order, count, outcome) ==
    {id \in Excess(order, count) : outcome[id] = "ok"}

EpisodesFailed(order, count, outcome) ==
    {id \in Excess(order, count) : outcome[id] # "ok"}

\* The UpdateEpisode callback of 607-612.
MarkCleaned(episode) ==
    [episode EXCEPT !.Status = EpisodeCleaned, !.Title = "", !.Description = ""]

\* As DownloadedEpisodes, the test of 583 taking every episode not yet Cleaned.
NotCleanedEpisodes(store) ==
    {id \in Known(store) : store[id].Status # EpisodeCleaned}

\* The episodes the walk of 582-589 collects.
DownloadedEpisodes(store) ==
    {id \in Known(store) : store[id].Status = EpisodeDownloaded}

Cleanup ==
    /\ pc = "cleanup"
    /\ \E count \in KeepLastChoices :
        /\ keepLast' = count
        /\ \/ /\ count < 1
              /\ UNCHANGED <<db, fs, cleanupErrors>>
              /\ StageReturns("cleanup", TRUE)
           \/ \* WalkEpisodes failed
              /\ count >= 1
              /\ UNCHANGED <<db, fs, cleanupErrors>>
              /\ StageReturns("cleanup", FALSE)
           \/ /\ count >= 1
              /\ count > Cardinality(DownloadedEpisodes(db))
              /\ UNCHANGED <<db, fs, cleanupErrors>>
              /\ StageReturns("cleanup", TRUE)
           \/ /\ count >= 1
              /\ count <= Cardinality(DownloadedEpisodes(db))
              /\ \E order \in SortedByPubDate(DownloadedEpisodes(db)) :
                 \E outcome \in [Excess(order, count) -> {"ok", "deleteFails", "updateFails"}] :
                    /\ fs' = [id \in EpisodeIDs |->
                                IF id \in BlobsDeleted(order, count, outcome)
                                THEN 0 ELSE fs[id]]
                    /\ db' = [id \in EpisodeIDs |->
                                IF id \in EpisodesCleaned(order, count, outcome)
                                THEN MarkCleaned(db[id]) ELSE db[id]]
                    /\ cleanupErrors' = EpisodesFailed(order, count, outcome)
                    /\ StageReturns("cleanup", EpisodesFailed(order, count, outcome) = {})
    /\ UNCHANGED <<feedConfig, listing, removed, downloadList, idx, loopVars, tmpDirs,
                   freshFeed, pageSizeLeft, openFiles>>
    /\ UNCHANGED <<trimVars, filterVars, feedVars, retryVars, configVars>>

\* ---------------------------------------------------------- specification

Next ==
    \/ Update
    \/ UpdateFeed
    \/ DownloadEpisodes
    \/ EpisodeExists
    \/ StatFails
    \/ FetchEpisode
    \/ BuildXML
    \/ BuildOPML
    \/ Cleanup

Spec == Init /\ [][Next]_vars

\* ------------------------------------------- Update called again and again

\* The configurations of a feed that downloads without the segment service.
RetryConfigs == {config \in FeedConfigs : config.SponsorblockMode = "off"}

\* A new Updater, a feed with one of RetryConfigs and a remote listing that
\* stays as it is.
RetryInit ==
    /\ fixedConfig \in RetryConfigs
    /\ fixedListing \in SUBSET EpisodeIDs
    /\ healthy = FALSE
    /\ feedConfig = NoConfig
    /\ keepLast = -1
    /\ db = [id \in EpisodeIDs |-> NoEpisode]
    /\ fs = [id \in EpisodeIDs |-> 0]
    /\ pc = "idle"
    /\ result = "none"
    /\ stages = <<>>
    /\ listing = {}
    /\ removed = {}
    /\ downloadList = <<>>
    /\ idx = 0
    /\ lastDownload = "none"
    /\ lastSegments = "none"
    /\ lastDelayPassed = FALSE
    /\ lastTranscode = "none"
    /\ tmpDirs = {}
    /\ freshFeed = TRUE
    /\ pageSizeLeft = 0
    /\ openFiles = {}
    /\ cleanupErrors = {}
    /\ segments = <<>>
    /\ keeps = <<>>
    /\ filter = <<>>
    /\ walked = NoEpisode
    /\ matched = FALSE
    /\ NoFeeds
    /\ NoLoad

\* In this step no call of the downloader, the store or the file storage
\* failed: a stage that returned returned nil, Downloader.Download returned
\* no error, cleanup collected no error.
CallsSucceed ==
    /\ Len(stages') > Len(stages) => stages'[Len(stages')].ok
    /\ pc = "downloading" => lastDownload' \in {"none", "ok"}
    /\ pc = "cleanup" => cleanupErrors' = {}

\* From here on every call succeeds.
Recover ==
    /\ ~healthy
    /\ healthy' = TRUE
    /\ UNCHANGED <<feedConfig, keepLast, db, fs, pc, result, stages, listing, removed,
                   downloadList, idx, loopVars, tmpDirs, freshFeed, pageSizeLeft,
                   openFiles, cleanupErrors, fixedConfig, fixedListing>>
    /\ UNCHANGED <<trimVars, filterVars, feedVars, configVars>>

RetryUpdate == Update /\ (healthy => CallsSucceed)

RetryUpdateFeed == UpdateFeedFrom({fixedListing}) /\ (healthy => CallsSucceed)

RetryDownloadEpisodes == DownloadEpisodesWith({fixedConfig}) /\ (healthy => CallsSucceed)

RetryEpisodeExists == EpisodeExists /\ (healthy => CallsSucceed)

RetryStatFails == StatFails /\ (healthy => CallsSucceed)

RetryFetchEpisode == FetchEpisode /\ (healthy => CallsSucceed)

RetryBuildXML == BuildXML /\ (healthy => CallsSucceed)

RetryBuildOPML == BuildOPML /\ (healthy => CallsSucceed)

RetryCleanup == Cleanup /\ (healthy => CallsSucceed)

RetryNext ==
    \/ Recover
    \/ RetryUpdate
    \/ RetryUpdateFeed
    \/ RetryDownloadEpisodes
    \/ RetryEpisodeExists
    \/ RetryStatFails
    \/ RetryFetchEpisode
    \/ RetryBuildXML
    \/ RetryBuildOPML
    \/ RetryCleanup

\* Update is called again whenever the previous call has returned, and every
\* stage it has started returns.
RetrySpec == RetryInit /\ [][RetryNext]_vars /\ WF_vars(RetryNext)

\* ------------------------------------------- Update of two feeds at once

\* The feeds of the configuration (the keys of config.Feeds).
FeedIDs == {"A", "B"}

FeedEpisodeIDs == 1..MaxFeedEpisodes

\* The feedConfig Update is called with for feed f.
FeedConfigOf(f) ==
    [ID |-> f, PageSize |-> MaxPageSize, SponsorblockMode |-> "off",
     Filters |-> NoFilters, KeepLast |-> 1]

\* As FeedID, every call going to the store and the blobs of feed "A".
FeedIDShared(config) == "A"

\* The feed ID a stage passes to the store and to the file storage
\* (146, 155, 166; 212; 569, 582, 602).
FeedID(config) == config.ID

\* What the store and the file storage hold for an episode of a feed before
\* the updates: no record, a New record (with a blob already, if a run before
\* stored it and failed to write the status) or a Downloaded record with its
\* blob.
InitialEpisode(id) ==
    IF id \in FeedEpisodeIDs
    THEN {[db |-> NoEpisode, fs |-> 0],
          [db |-> RemoteEpisode(id), fs |-> 0],
          [db |-> RemoteEpisode(id), fs |-> RawSize(id)],
          [db |-> [RemoteEpisode(id) EXCEPT !.Status = EpisodeDownloaded, !.Size = RawSize(id)],
           fs |-> RawSize(id)]}
    ELSE {[db |-> NoEpisode, fs |-> 0]}

InitialFeeds ==
    {[db |-> [id \in EpisodeIDs |-> c[id].db], fs |-> [id \in EpisodeIDs |-> c[id].fs]] :
        c \in {c \in [EpisodeIDs -> UNION {InitialEpisode(id) : id \in EpisodeIDs}] :
                 \A id \in EpisodeIDs : c[id] \in InitialEpisode(id)}}

\* What the store and the file storage hold under a feed ID.
Shared(feedID) == [db |-> feedDb[feedID], fs |-> feedFs[feedID]]

\* The calls of a stage, on what is held for one feed (p.db, p.fs).
Reconciled(p, remote) == [p EXCEPT !.db = Reconcile(p.db, remote)]
Existing(p, id) == [p EXCEPT !.db = MarkDownloaded(p.db, id, p.fs[id])]
Failed(p, id) == [p EXCEPT !.db = MarkError(p.db, id)]
Stored(p, id) ==
    [db |-> MarkDownloaded(p.db, id, RawSize(id)), fs |-> [p.fs EXCEPT ![id] = RawSize(id)]]
Cleaned(p, blobs, records) ==
    [db |-> [id \in EpisodeIDs |-> IF id \in records THEN MarkCleaned(p.db[id]) ELSE p.db[id]],
     fs |-> [id \in EpisodeIDs |-> IF id \in blobs THEN 0 ELSE p.fs[id]]]

\* The Update of feed f writes under feedID; its calls acting on a store and
\* a file storage of its own leave own.
WriteFeed(f, feedID, held, own) ==
    /\ feedDb' = [feedDb EXCEPT ![feedID] = held.db]
    /\ feedFs' = [feedFs EXCEPT ![feedID] = held.fs]
    /\ alone' = [alone EXCEPT ![f] = own]

\* The Update of feed f goes to pc, the locals of downloadEpisodes as given.
Goes(f, to, list, i) ==
    updater' = [updater EXCEPT ![f] = [pc |-> to, downloadList |-> list, idx |-> i]]

FeedsInit ==
    /\ \E a, b \in InitialFeeds :
          /\ feedDb = [f \in FeedIDs |-> IF f = "A" THEN a.db ELSE b.db]
          /\ feedFs = [f \in FeedIDs |-> IF f = "A" THEN a.fs ELSE b.fs]
          /\ alone = [f \in FeedIDs |-> IF f = "A" THEN a ELSE b]
    /\ updater = [f \in FeedIDs |-> [pc |-> "updateFeed", downloadList |-> <<>>, idx |-> 0]]
    /\ feedConfig = NoConfig
    /\ keepLast = -1
    /\ db = [id \in EpisodeIDs |-> NoEpisode]
    /\ fs = [id \in EpisodeIDs |-> 0]
    /\ pc = "idle"
    /\ result = "none"
    /\ stages = <<>>
    /\ listing = {}
    /\ removed = {}
    /\ downloadList = <<>>
    /\ idx = 0
    /\ lastDownload = "none"
    /\ lastSegments = "none"
    /\ lastDelayPassed = FALSE
    /\ lastTranscode = "none"
    /\ tmpDirs = {}
    /\ freshFeed = TRUE
    /\ pageSizeLeft = 0
    /\ openFiles = {}
    /\ cleanupErrors = {}
    /\ segments = <<>>
    /\ keeps = <<>>
    /\ filter = <<>>
    /\ walked = NoEpisode
    /\ matched = FALSE
    /\ NoRetry
    /\ NoLoad

pipelineVars ==
    <<feedConfig, keepLast, db, fs, pc, result, stages, listing, removed, downloadList,
      idx, loopVars, tmpDirs, freshFeed, pageSizeLeft, openFiles, cleanupErrors, trimVars, filterVars,
      retryVars, configVars>>

\* updateFeed (119-174) of the Update of feed f.
FeedUpdateFeed(f) ==
    /\ updater[f].pc = "updateFeed"
    /\ \/ /\ Goes(f, "done", <<>>, 0)
          /\ UNCHANGED <<feedDb, feedFs, alone>>
       \/ \E remote \in SUBSET FeedEpisodeIDs :
             /\ WriteFeed(f, FeedID(FeedConfigOf(f)),
                          Reconciled(Shared(FeedID(FeedConfigOf(f))), remote),
                          Reconciled(alone[f], remote))
             /\ Goes(f, "downloadEpisodes", <<>>, 0)
    /\ UNCHANGED pipelineVars

\* The walk of downloadEpisodes (210-253).
FeedDownloadEpisodes(f) ==
    /\ updater[f].pc = "downloadEpisodes"
    /\ LET list == BuildDownloadList(feedDb[FeedID(FeedConfigOf(f))], FeedConfigOf(f))
       IN  IF list = <<>> THEN Goes(f, "buildXML", <<>>, 0)
           ELSE Goes(f, "downloading", list, 1)
    /\ UNCHANGED <<feedDb, feedFs, alone>>
    /\ UNCHANGED pipelineVars

\* One iteration of the loop of downloadEpisodes (257-516), mode off.
FeedDownloadStep(f) ==
    /\ updater[f].pc = "downloading"
    /\ LET list == updater[f].downloadList
           i == updater[f].idx
           feedID == FeedID(FeedConfigOf(f))
           Continue == IF i < Len(list) THEN Goes(f, "downloading", list, i + 1)
                       ELSE Goes(f, "buildXML", <<>>, 0)
       IN  \/ \* a call failed: return err
              /\ Goes(f, "done", <<>>, 0)
              /\ UNCHANGED <<feedDb, feedFs, alone>>
           \/ /\ feedFs[feedID][list[i]] > 0
              /\ WriteFeed(f, feedID, Existing(Shared(feedID), list[i]), Existing(alone[f], list[i]))
              /\ Continue
           \/ /\ feedFs[feedID][list[i]] = 0
              /\ \/ \* ErrTooManyRequests
                    /\ Goes(f, "buildXML", <<>>, 0)
                    /\ UNCHANGED <<feedDb, feedFs, alone>>
                 \/ /\ WriteFeed(f, feedID, Failed(Shared(feedID), list[i]), Failed(alone[f], list[i]))
                    /\ Continue
                 \/ /\ WriteFeed(f, feedID, Stored(Shared(feedID), list[i]), Stored(alone[f], list[i]))
                    /\ Continue
    /\ UNCHANGED pipelineVars

\* buildXML and buildOPML (522-565): they read the store and write
\* <feed ID>.xml and podsync.opml, no episode record and no episode blob.
FeedBuildXML(f) ==
    /\ updater[f].pc = "buildXML"
    /\ \/ Goes(f, "buildOPML", <<>>, 0)
       \/ Goes(f, "done", <<>>, 0)
    /\ UNCHANGED <<feedDb, feedFs, alone>>
    /\ UNCHANGED pipelineVars

FeedBuildOPML(f) ==
    /\ updater[f].pc = "buildOPML"
    /\ \/ Goes(f, "cleanup", <<>>, 0)
       \/ Goes(f, "done", <<>>, 0)
    /\ UNCHANGED <<feedDb, feedFs, alone>>
    /\ UNCHANGED pipelineVars

\* cleanup (567-619).
FeedCleanup(f) ==
    /\ updater[f].pc = "cleanup"
    /\ LET feedID == FeedID(FeedConfigOf(f))
           count == FeedConfigOf(f).KeepLast
           list == DownloadedEpisodes(feedDb[feedID])
       IN  \/ /\ count > Cardinality(list)
              /\ UNCHANGED <<feedDb, feedFs, alone>>
           \/ /\ count <= Cardinality(list)
              /\ \E order \in SortedByPubDate(list) :
                 \E outcome \in [Excess(order, count) -> {"ok", "deleteFails", "updateFails"}] :
                    WriteFeed(f, feedID,
                              Cleaned(Shared(feedID), BlobsDeleted(order, count, outcome),
                                      EpisodesCleaned(order, count, outcome)),
                              Cleaned(alone[f], BlobsDeleted(order, count, outcome),
                                      EpisodesCleaned(order, count, outcome)))
    /\ Goes(f, "done", <<>>, 0)
    /\ UNCHANGED pipelineVars

FeedsNext ==
    \E f \in FeedIDs :
        \/ FeedUpdateFeed(f)
        \/ FeedDownloadEpisodes(f)
        \/ FeedDownloadStep(f)
        \/ FeedBuildXML(f)
        \/ FeedBuildOPML(f)
        \/ FeedCleanup(f)

FeedsSpec == FeedsInit /\ [][FeedsNext]_vars

\* ------------------------------------------- LoadConfig (config.go 199-220)

\* The largest number of feeds of a configuration.
MaxConfigFeeds == 2

\* What sponsorblock.default_mode and a feed's sponsorblock_mode may spell:
\* unset, "default", the four modes, a word that is no mode.
ModeStrings == {"", "default", "always"} \cup SponsorblockModes

\* The fields of Config that validate and the mode resolution of
\* applyDefaults read, as toml.Unmarshal may leave them.
Configs ==
    [Server : [DataDir : {"", "/data"}],
     SponsorBlock : [DefaultMode : ModeStrings],
     Feeds : UNION {[1..n -> [URL : {"", "url"}, SponsorblockMode : ModeStrings]] :
                        n \in 0..MaxConfigFeeds}]

\* As IsValidSponsorblockMode, "default" accepted wherever it stands.
IsValidSponsorblockModeAnywhere(mode, inFeed) ==
    mode \in SponsorblockModes \cup {"default"}

\* IsValidSponsorblockMode (78-91).
IsValidSponsorblockMode(mode, inFeed) ==
    CASE mode \in {"off", "require", "delay", "requiredelay"} -> TRUE
      [] mode = "default" -> inFeed
      [] OTHER -> FALSE

\* applyDefaults (252-360), the modes: the default mode (281-283), then each
\* feed's mode from the default mode as 281-283 left it (329-331).
applyDefaults(c) ==
    LET DefaultMode == IF c.SponsorBlock.DefaultMode = ""
                       THEN "off" ELSE c.SponsorBlock.DefaultMode
    IN  [c EXCEPT !.SponsorBlock.DefaultMode = DefaultMode,
                  !.Feeds = [i \in DOMAIN c.Feeds |->
                      [c.Feeds[i] EXCEPT !.SponsorblockMode =
                          IF @ = "" \/ @ = "default" THEN DefaultMode ELSE @]]]

\* validate (222-250) returns nil.
validate(c) ==
    /\ c.Server.DataDir # ""
    /\ Len(c.Feeds) # 0
    /\ IsValidSponsorblockMode(c.SponsorBlock.DefaultMode, FALSE)
    /\ \A i \in DOMAIN c.Feeds :
          /\ c.Feeds[i].URL # ""
          /\ IsValidSponsorblockMode(c.Feeds[i].SponsorblockMode, TRUE)

\* toml.Unmarshal has filled the Config (205-208).
ConfigInit ==
    /\ cfgInput \in Configs
    /\ cfg = cfgInput
    /\ pc = "applyDefaults"
    /\ feedConfig = NoConfig
    /\ keepLast = -1
    /\ db = [id \in EpisodeIDs |-> NoEpisode]
    /\ fs = [id \in EpisodeIDs |-> 0]
    /\ result = "none"
    /\ stages = <<>>
    /\ listing = {}
    /\ removed = {}
    /\ downloadList = <<>>
    /\ idx = 0
    /\ lastDownload = "none"
    /\ lastSegments = "none"
    /\ lastDelayPassed = FALSE
    /\ lastTranscode = "none"
    /\ tmpDirs = {}
    /\ freshFeed = TRUE
    /\ pageSizeLeft = 0
    /\ openFiles = {}
    /\ cleanupErrors = {}
    /\ segments = <<>>
    /\ keeps = <<>>
    /\ filter = <<>>
    /\ walked = NoEpisode
    /\ matched = FALSE
    /\ NoFeeds
    /\ NoRetry

\* config.applyDefaults(path) (214).
ApplyDefaultsStep ==
    /\ pc = "applyDefaults"
    /\ cfg' = applyDefaults(cfg)
    /\ pc' = "validate"
    /\ UNCHANGED <<feedConfig, keepLast, db, fs, result, stages, listing, removed,
                   downloadList, idx, loopVars, tmpDirs, freshFeed, pageSizeLeft,
                   openFiles, cleanupErrors, cfgInput>>
    /\ UNCHANGED <<trimVars, filterVars, feedVars, retryVars>>

\* config.validate() (216-218): LoadConfig returns the Config or the error.
ValidateStep ==
    /\ pc = "validate"
    /\ pc' = IF validate(cfg) THEN "loaded" ELSE "rejected"
    /\ UNCHANGED <<feedConfig, keepLast, db, fs, result, stages, listing, removed,
                   downloadList, idx, loopVars, tmpDirs, freshFeed, pageSizeLeft,
                   openFiles, cleanupErrors, cfgInput, cfg>>
    /\ UNCHANGED <<trimVars, filterVars, feedVars, retryVars>>

ConfigNext == ApplyDefaultsStep \/ ValidateStep

ConfigSpec == ConfigInit /\ [][ConfigNext]_vars

\* ------------------------------------------------------------------ claims

\* updateFeed returns in this step.
UpdateFeedReturns == pc = "updateFeed" /\ pc' # "updateFeed"

\* C1: the episodes updateFeed deletes are exactly the known episodes whose
\* status before the merge was New or Error and whose ID the fetched listing
\* lacks (all of them when it returns nil, only such episodes when a call
\* fails); an episode that is Downloaded or Cleaned stays in the store with
\* its status, and an episode of the listing is in the store afterwards.
C1_ReconcilerDeletes ==
    [][UpdateFeedReturns =>
        LET gone == Known(db) \ Known(db')
            absentNewOrError ==
                {id \in Known(db) :
                    db[id].Status \in {EpisodeNew, EpisodeError} /\ id \notin listing'}
        IN  /\ gone \subseteq absentNewOrError
            /\ pc' = "downloadEpisodes" => gone = absentNewOrError
            /\ \A id \in Known(db) :
                 db[id].Status \in {EpisodeDownloaded, EpisodeCleaned} =>
                    id \in Known(db') /\ db'[id].Status = db[id].Status
            /\ listing' \subseteq Known(db')]_vars

\* updateFeed returned nil having deleted an episode, while a Downloaded or
\* Cleaned episode the listing lacks is still in the store.
C1_Witness ==
    /\ pc = "downloadEpisodes"
    /\ removed # {}
    /\ \E id \in Known(db) \ listing :
         db[id].Status \in {EpisodeDownloaded, EpisodeCleaned}

\* C2: updateFeed is idempotent: in the store an updateFeed left (having
\* returned nil), another updateFeed with the same listing changes nothing.
C2_ReconcileIdempotent ==
    pc = "downloadEpisodes" => Reconcile(db, listing) = db

\* updateFeed returned nil having inserted an episode, deleted one and found
\* one of the listing already known.
C2_Witness ==
    /\ pc = "downloadEpisodes"
    /\ removed # {}
    /\ \E id \in listing : db[id].Status = EpisodeNew
    /\ \E id \in listing : db[id].Status \in {EpisodeError, EpisodeDownloaded}

\* The status changes of the transition table, "absent" being no record.
StatusTransitions ==
    {<<"absent", EpisodeNew>>, <<EpisodeNew, "absent">>, <<EpisodeError, "absent">>,
     <<EpisodeNew, EpisodeDownloaded>>, <<EpisodeNew, EpisodeError>>,
     <<EpisodeError, EpisodeDownloaded>>, <<EpisodeDownloaded, EpisodeCleaned>>}

\* Downloader.Download is called with episode id in this step.
DownloaderInvoked(id) ==
    /\ pc = "downloading"
    /\ lastDownload' # "none"
    /\ downloadList[idx] = id

\* C3: every change of a stored status is one of the transition table
\* (Cleaned only from Downloaded; a record appears as New and only a New or
\* Error record disappears), and the downloader is only ever called with an
\* episode that is New or Error.
C3_StatusTransitions ==
    [][\A id \in EpisodeIDs :
        /\ db'[id].Status # db[id].Status =>
              <<db[id].Status, db'[id].Status>> \in StatusTransitions
        /\ DownloaderInvoked(id) => db[id].Status \in {EpisodeNew, EpisodeError}]_vars

\* A run ended with an episode Cleaned, one Downloaded and one Error.
C3_Witness ==
    /\ pc = "done"
    /\ \E a, b, c \in EpisodeIDs :
         /\ db[a].Status = EpisodeCleaned
         /\ db[b].Status = EpisodeDownloaded
         /\ db[c].Status = EpisodeError

\* The episodes downloadEpisodes may queue: New or Error and passing the
\* filters, in store order.
EligibleEpisodes(store, filters) ==
    LET Eligible(id) ==
            /\ store[id].Status \in {EpisodeNew, EpisodeError}
            /\ matchFilters(store[id], filters)
    IN  SelectSeq([id \in EpisodeIDs |-> id], Eligible)

\* downloadEpisodes has built its queue and has not yet touched an episode.
QueueJustBuilt ==
    \/ pc = "downloading" /\ idx = 1
    \/ pc = "buildXML" /\ downloadList = <<>> /\ feedConfig # NoConfig

\* C4: with page size P >= 1 and M >= P eligible episodes, the queue of a run
\* is the first P eligible episodes in store order (so the other M - P are
\* left as they are).
C4_PageSizeBudget ==
    (QueueJustBuilt /\ Len(EligibleEpisodes(db, feedConfig.Filters)) >= feedConfig.PageSize)
        => downloadList =
             SubSeq(EligibleEpisodes(db, feedConfig.Filters), 1, feedConfig.PageSize)

\* Downloader.Download returns ErrTooManyRequests in this step.
RateLimitedStep == pc = "downloading" /\ lastDownload' = ErrTooManyRequests

\* C5: when the downloader returns ErrTooManyRequests for a candidate, the
\* step changes no episode record and no blob (the candidate and the later
\* ones keep their status, none is marked Error), downloadEpisodes returns nil
\* so that Update goes on to buildXML, and the downloader is not called again.
C5_RateLimitStopsBatch ==
    [][/\ RateLimitedStep =>
            /\ db' = db
            /\ fs' = fs
            /\ pc' = "buildXML"
            /\ result' = "none"
            /\ stages'[Len(stages')] = [name |-> "downloadEpisodes", ok |-> TRUE]
       /\ lastDownload = ErrTooManyRequests =>
            /\ pc # "downloading"
            /\ \A id \in EpisodeIDs : ~DownloaderInvoked(id)
            /\ \A i \in idx..Len(downloadList) :
                 db'[downloadList[i]].Status = db[downloadList[i]].Status]_vars

\* The downloader was rate limited on the 2nd of 3 candidates: downloadEpisodes
\* returned nil, the 2nd and the 3rd are still New or Error.
C5_Witness ==
    /\ pc = "buildXML"
    /\ lastDownload = ErrTooManyRequests
    /\ idx = 2
    /\ Len(downloadList) = 3
    /\ db[downloadList[2]].Status = EpisodeError
    /\ db[downloadList[3]].Status = EpisodeNew

\* Downloader.Download returns an error other than ErrTooManyRequests in this step.
DownloadFailedStep == pc = "downloading" /\ lastDownload' = "error"

\* C6: when the downloader fails with another error, no other episode's
\* record changes and, the store taking the status write of 353-356, the
\* candidate becomes Error and the loop goes on to the next candidate (or ends
\* with nil after the last one); only if that write itself fails does
\* downloadEpisodes return its error, the candidate unchanged.
C6_DownloadErrorMarksError ==
    [][DownloadFailedStep =>
        /\ \A id \in EpisodeIDs \ {downloadList[idx]} : db'[id] = db[id]
        /\ fs' = fs
        /\ \/ /\ db'[downloadList[idx]].Status = EpisodeError
              /\ IF idx < Len(downloadList)
                 THEN pc' = "downloading" /\ idx' = idx + 1
                 ELSE pc' = "buildXML"
              /\ result' = "none"
           \/ /\ db' = db
              /\ pc' = "done"
              /\ result' = "error"]_vars

\* A download failed for the 1st candidate, which is Error now, and the loop
\* is at the 2nd.
C6_Witness ==
    /\ pc = "downloading"
    /\ lastDownload = "error"
    /\ idx = 2
    /\ db[downloadList[1]].Status = EpisodeError
    /\ db[downloadList[2]].Status = EpisodeNew

\* cleanup returns in this step.
CleanupReturns == pc = "cleanup" /\ pc' = "done"

\* An episode record as cleanup leaves it when it cleans the episode.
CleanedRecord(episode) ==
    [Status |-> EpisodeCleaned, Title |-> "", Description |-> "", Size |-> episode.Size]

\* The ways to keep the count newest of the episodes of list: sets of count
\* episodes none of which was published before an episode left out.
NewestOf(list, count) ==
    {kept \in SUBSET list :
        /\ Cardinality(kept) = count
        /\ \A k \in kept : \A e \in list \ kept : PubDate(k) >= PubDate(e)}

\* C7: a cleanup in which no call fails, run with keep-last N >= 1 on D >= N
\* Downloaded episodes, leaves N of the newest by publish date as they are
\* (record and blob) and makes each of the other D - N Cleaned with empty
\* title and description and no blob; with N < 1 or D <= N it changes nothing.
C7_Retention ==
    [][(CleanupReturns /\ stages'[Len(stages')].ok) =>
        LET list == DownloadedEpisodes(db)
        IN  IF keepLast' < 1 \/ Cardinality(list) <= keepLast'
            THEN db' = db /\ fs' = fs
            ELSE \E kept \in NewestOf(list, keepLast') :
                    /\ \A id \in list \ kept :
                         db'[id] = CleanedRecord(db[id]) /\ fs'[id] = 0
                    /\ \A id \in EpisodeIDs \ (list \ kept) :
                         db'[id] = db[id] /\ fs'[id] = fs[id]]_vars

\* cleanup returned nil with keep-last 1: it kept the newest episode, with
\* its blob, and cleaned two older ones.
C7_Witness ==
    /\ pc = "done"
    /\ Len(stages) = 5
    /\ stages[5].ok
    /\ keepLast = 1
    /\ \E k, a, b \in EpisodeIDs :
         /\ a # b
         /\ db[k].Status = EpisodeDownloaded /\ db[k].Title # "" /\ fs[k] > 0
         /\ db[a].Status = EpisodeCleaned /\ PubDate(a) < PubDate(k)
         /\ db[b].Status = EpisodeCleaned /\ PubDate(b) < PubDate(k)

\* C8: cleanup goes through every excess episode whatever fails: an excess
\* episode whose blob could not be deleted keeps its record and its blob, any
\* other excess episode loses its blob and becomes Cleaned (or, its status
\* write failing, keeps its record), and the returned error lists exactly the
\* episodes that failed.
C8_CleanupContinues ==
    [][(CleanupReturns /\ keepLast' >= 1
            /\ Cardinality(DownloadedEpisodes(db)) > keepLast'
            /\ (stages'[Len(stages')].ok \/ cleanupErrors' # {})) =>
        LET list == DownloadedEpisodes(db)
        IN  \E kept \in NewestOf(list, keepLast') :
               /\ cleanupErrors' \subseteq list \ kept
               /\ stages'[Len(stages')].ok = (cleanupErrors' = {})
               /\ \A id \in list \ kept :
                    IF id \in cleanupErrors'
                    THEN db'[id] = db[id] /\ fs'[id] \in {fs[id], 0}
                    ELSE db'[id] = CleanedRecord(db[id]) /\ fs'[id] = 0
               /\ \A id \in EpisodeIDs \ (list \ kept) :
                    db'[id] = db[id] /\ fs'[id] = fs[id]]_vars

\* cleanup ran over two excess episodes: the blob of the newer one could not
\* be deleted (it is Downloaded with its blob and listed in the error), the
\* older one after it is Cleaned.
C8_Witness ==
    /\ pc = "done"
    /\ Len(stages) = 5
    /\ ~stages[5].ok
    /\ \E a, b \in EpisodeIDs :
         /\ PubDate(a) > PubDate(b)
         /\ cleanupErrors = {a}
         /\ db[a].Status = EpisodeDownloaded /\ fs[a] > 0
         /\ db[b].Status = EpisodeCleaned /\ fs[b] = 0

\* The stage Update is in.
RunningStage == IF pc = "downloading" THEN "downloadEpisodes" ELSE pc

\* C9: the stages of a run return in the order updateFeed, downloadEpisodes,
\* buildXML, buildOPML, cleanup; a stage runs only when every stage before it
\* has returned nil; and once a stage before cleanup has returned an error, no
\* further stage runs and Update returns an error.
C9_StageOrder ==
    /\ Len(stages) <= Len(StageOrder)
    /\ \A i \in DOMAIN stages : stages[i].name = StageOrder[i]
    /\ \A i \in DOMAIN stages : i < Len(stages) => stages[i].ok
    /\ pc \notin {"idle", "done"} =>
         /\ Len(stages) < Len(StageOrder)
         /\ RunningStage = StageOrder[Len(stages) + 1]
         /\ \A i \in DOMAIN stages : stages[i].ok
         /\ result = "none"
    /\ \A i \in DOMAIN stages :
         (~stages[i].ok /\ stages[i].name # "cleanup") => pc = "done" /\ result = "error"

\* buildXML failed: Update returned an error after three stages.
C9_Witness ==
    /\ pc = "done"
    /\ result = "error"
    /\ Len(stages) = 3
    /\ stages[3] = [name |-> "buildXML", ok |-> FALSE]
    /\ \E id \in EpisodeIDs : db[id].Status = EpisodeDownloaded

\* C10: once the four stages before it have returned nil, Update returns nil
\* whatever cleanup returns, and cleanup's failure undoes nothing: what it
\* changes in a record is only the cleaning of a Downloaded episode.
C10_CleanupFailureNotFatal ==
    [][pc = "cleanup" =>
        /\ pc' = "done"
        /\ result' = "ok"
        /\ \A id \in EpisodeIDs :
             \/ db'[id] = db[id]
             \/ db[id].Status = EpisodeDownloaded /\ db'[id] = CleanedRecord(db[id])]_vars

\* cleanup returned an error and Update returned nil; the episode the run
\* downloaded and cleanup failed on is still Downloaded.
C10_Witness ==
    /\ pc = "done"
    /\ result = "ok"
    /\ Len(stages) = 5
    /\ ~stages[5].ok
    /\ cleanupErrors # {}
    /\ \A id \in cleanupErrors : db[id].Status = EpisodeDownloaded

\* The time units of the range from start to end, end excluded.
Units(start, end) == start..(end - 1)

\* The segments of the list the planner cuts out.
CutSegments == {i \in DOMAIN segments :
                   ~SkippedSegment(segments[i], feedConfig.SponsorBlockCategories)}

\* The time units keep i covers in a media of duration T.
KeepUnits(i, T) == Units(keeps[i][1], IF keeps[i][2] = -1 THEN T ELSE keeps[i][2])

\* The media durations the segments fit in.
Durations ==
    {T \in 0..MaxDuration : \A i \in DOMAIN segments : segments[i].Segment[2] <= T}

\* C11: for a list of disjoint cut segments in ascending order within a media
\* of duration T, the keeps the planner built (the last end, -1, read as T)
\* do not overlap each other, and together they cover exactly the time of
\* the media that no cut segment covers.
C11_KeepsPartition ==
    pc \in {"buildFilter", "ffmpeg"} =>
        \A T \in Durations :
            /\ \A i, j \in DOMAIN keeps : i # j => KeepUnits(i, T) \cap KeepUnits(j, T) = {}
            /\ UNION {KeepUnits(i, T) : i \in DOMAIN keeps}
                 = Units(0, T) \ UNION {Units(segments[i].Segment[1], segments[i].Segment[2]) :
                                           i \in CutSegments}

\* The planner ran on two cut segments with time between them, the media
\* starting with a part to keep: three keeps.
C11_Witness ==
    /\ pc = "buildFilter"
    /\ Cardinality(CutSegments) = 2
    /\ Len(keeps) = 3
    /\ keeps[1][1] < keeps[1][2]
    /\ keeps[2][1] < keeps[2][2]
    /\ keeps[3] = <<segments[2].Segment[2], -1>>

\* The stages of the filter with operation op, in order.
StagesOf(op) == LET IsOp(stage) == stage.Op = op IN SelectSeq(filter, IsOp)

\* What a trim stage of stream ("a" or "v") for keep i must say.
StageForKeep(stage, stream, i) ==
    /\ stage.Label = <<"s", i - 1, stream>>
    /\ stage.Input = <<0, stream>>
    /\ stage.Args[1] = <<"start", keeps[i][1]>>
    /\ IF keeps[i][2] # -1
       THEN Len(stage.Args) = 2 /\ stage.Args[2] = <<"end", keeps[i][2]>>
       ELSE Len(stage.Args) = 1

\* The labels of stream among the inputs of a stage, in order.
InputsOf(stage, stream) ==
    LET IsStream(label) == label[3] = stream IN SelectSeq(stage.Input, IsStream)

\* C13: for k keeps the filter has exactly k audio trim stages, the i-th
\* labelled s(i-1)a, and exactly k video trim stages labelled s(i-1)v when the
\* format is not audio-only (none when it is); a stage has an end bound exactly
\* when its keep's end is not -1; and the filter ends with its one
\* concatenation stage, which has n = k and takes the labels of all k keeps
\* in keep order.
C13_FilterGraph ==
    pc = "ffmpeg" =>
        LET k == Len(keeps)
            video == feedConfig.Format # FormatAudio
            concat == filter[Len(filter)]
        IN  /\ Len(StagesOf("atrim")) = k
            /\ \A i \in 1..k : StageForKeep(StagesOf("atrim")[i], "a", i)
            /\ Len(StagesOf("trim")) = (IF video THEN k ELSE 0)
            /\ \A i \in 1..Len(StagesOf("trim")) : StageForKeep(StagesOf("trim")[i], "v", i)
            /\ Len(StagesOf("concat")) = 1
            /\ Len(filter) = Len(StagesOf("atrim")) + Len(StagesOf("trim")) + 1
            /\ concat.Op = "concat"
            /\ concat.Args[1] = <<"n", k>>
            /\ InputsOf(concat, "a") = [i \in 1..k |-> <<"s", i - 1, "a">>]
            /\ InputsOf(concat, "v") = (IF video THEN [i \in 1..k |-> <<"s", i - 1, "v">>] ELSE <<>>)
            /\ Len(concat.Input) = (IF video THEN 2 * k ELSE k)

\* The filter was built for a video with three keeps, the first ending at 0
\* (the media starts with a cut segment) and the last open-ended.
C13_Witness ==
    /\ pc = "ffmpeg"
    /\ feedConfig.Format = FormatVideo
    /\ Len(keeps) = 3
    /\ keeps[1] = <<0, 0>>
    /\ Len(filter) = 7

\* A filter passes: it has no pattern, or its pattern does not compile, or
\* its pattern matches the field (positive filter) or does not (negative).
FilterPasses(pattern, field, negative) ==
    \/ pattern = ""
    \/ MatchString(pattern, field).err
    \/ MatchString(pattern, field).matched # negative

\* C12: matchFilters returns true exactly when all four filters pass: title
\* and description as positive filters, not_title and not_description as
\* negative ones, a filter without pattern or with a pattern that does not
\* compile passing; so a not_title pattern that matches the title excludes
\* the episode.
C12_MatchFilters ==
    pc = "matchFiltersReturned" =>
        /\ matched = (/\ FilterPasses(feedConfig.Filters.Title, walked.Title, FALSE)
                      /\ FilterPasses(feedConfig.Filters.NotTitle, walked.Title, TRUE)
                      /\ FilterPasses(feedConfig.Filters.Description, walked.Description, FALSE)
                      /\ FilterPasses(feedConfig.Filters.NotDescription, walked.Description, TRUE))
        /\ MatchString(feedConfig.Filters.NotTitle, walked.Title).matched => ~matched

\* matchFilters accepted an episode under a title filter that matches, a
\* description filter that does not compile and a not_title filter that does
\* not match.
C12_Witness ==
    /\ pc = "matchFiltersReturned"
    /\ matched
    /\ feedConfig.Filters.Title = walked.Title
    /\ feedConfig.Filters.Description = "("
    /\ feedConfig.Filters.NotTitle \notin {"", "(", walked.Title}
    /\ feedConfig.Filters.NotDescription = ""

\* The loop leaves the candidate as it is and goes on: to the next candidate,
\* or, after the last one, to `return nil`.
CandidateSkipped ==
    /\ db' = db
    /\ fs' = fs
    /\ IF idx < Len(downloadList)
       THEN pc' = "downloading" /\ idx' = idx + 1
       ELSE pc' = "buildXML"
    /\ result' = "none"

\* C14: a candidate is deferred (no call of the downloader, its record
\* unchanged, the loop going on) when the mode is require and the lookup
\* yields zero segments, and when the mode is requiredelay, the lookup yields
\* zero segments and the delay has not passed; in requiredelay with segments,
\* or with the delay passed, the downloader is called.
C14_DeferralGating ==
    [][pc = "downloading" =>
        LET mode == feedConfig.SponsorblockMode
        IN  /\ (mode = "require" /\ lastSegments' = "zero")
                  => lastDownload' = "none" /\ CandidateSkipped
            /\ (mode = "requiredelay" /\ lastSegments' = "zero" /\ ~lastDelayPassed')
                  => lastDownload' = "none" /\ CandidateSkipped
            /\ (mode = "requiredelay"
                  /\ (lastSegments' = "some" \/ (lastSegments' = "zero" /\ lastDelayPassed')))
                  => lastDownload' # "none"]_vars

\* In mode require the lookup for the 1st candidate, a New episode, yielded
\* zero segments: the episode is still New, without a blob, and the loop is
\* at the 2nd candidate.
C14_Witness ==
    /\ pc = "downloading"
    /\ idx = 2
    /\ feedConfig.SponsorblockMode = "require"
    /\ lastSegments = "zero"
    /\ lastDownload = "none"
    /\ db[downloadList[1]].Status = EpisodeNew
    /\ fs[downloadList[1]] = 0

\* C15: in mode delay, while the delay since the publish time has not passed,
\* the downloader is not called for the candidate and its record stays as it is.
C15_DelayModeDefers ==
    [][(pc = "downloading" /\ feedConfig.SponsorblockMode = "delay"
            /\ lastSegments' # "none" /\ ~lastDelayPassed')
        => lastDownload' = "none" /\ db' = db /\ fs' = fs]_vars

\* C16: a run on a feed without local episodes or blobs, with a page size >= 1, mode
\* off and a listing of one episode that passes the filters, no call failing,
\* leaves downloadEpisodes with the episode Downloaded, its size the bytes of
\* the raw download, and neither a segment lookup nor a trim done.
C16_EndToEnd ==
    (/\ pc = "buildXML"
     /\ freshFeed
     /\ feedConfig.PageSize >= 1
     /\ feedConfig.SponsorblockMode = "off"
     /\ Cardinality(Known(db)) = 1
     /\ \A id \in Known(db) : matchFilters(db[id], feedConfig.Filters)
     /\ lastDownload \notin {ErrTooManyRequests, "error"})
    => \A id \in Known(db) :
          /\ db[id].Status = EpisodeDownloaded
          /\ db[id].Size = RawSize(id)
          /\ fs[id] = RawSize(id)
          /\ lastSegments = "none"
          /\ lastTranscode = "none"

\* C17: when ffmpeg fails to start or to run for a candidate, the candidate
\* becomes Error, the loop goes on with the next candidate and neither
\* downloadEpisodes nor Update fails.
C17_TranscoderFailureContained ==
    [][(pc = "downloading" /\ lastTranscode' \in {"startFails", "runFails"})
        => /\ db'[downloadList[idx]].Status = EpisodeError
           /\ IF idx < Len(downloadList)
              THEN pc' = "downloading" /\ idx' = idx + 1
              ELSE pc' = "buildXML"
           /\ result' = "none"]_vars

\* C18: when downloadEpisodes has returned, no working directory it created
\* for ffmpeg exists any more.
C18_WorkDirRemoved ==
    (Len(stages) = 2 /\ stages[2].name = "downloadEpisodes") => tmpDirs = {}

\* C19: when the blob of the candidate exists already, the step does no
\* segment lookup, does not call the downloader and writes nothing to the
\* file storage; it marks the episode Downloaded with the size of the blob
\* and goes on to the next candidate (or ends the loop with nil) unless
\* fs.Size or the status write fails, in which case downloadEpisodes returns
\* the error and the record is unchanged.
C19_ExistingBlob ==
    [][(pc = "downloading" /\ fs[downloadList[idx]] > 0) =>
        /\ lastSegments' = "none"
        /\ lastDownload' = "none"
        /\ lastTranscode' = "none"
        /\ fs' = fs
        /\ \/ /\ db' = [db EXCEPT ![downloadList[idx]].Status = EpisodeDownloaded,
                                  ![downloadList[idx]].Size = fs[downloadList[idx]]]
              /\ IF idx < Len(downloadList)
                 THEN pc' = "downloading" /\ idx' = idx + 1
                 ELSE pc' = "buildXML"
              /\ result' = "none"
           \/ /\ db' = db
              /\ pc' = "done"
              /\ result' = "error"]_vars

\* The blob of the 1st candidate existed (a run before stored it and failed
\* to write the status): the episode is Downloaded with the size of the blob,
\* nothing was fetched, and the loop is at the 2nd candidate.
C19_Witness ==
    /\ pc = "downloading"
    /\ idx = 2
    /\ lastDownload = "none"
    /\ lastSegments = "none"
    /\ db[downloadList[1]].Status = EpisodeDownloaded
    /\ fs[downloadList[1]] > 0
    /\ db[downloadList[1]].Size = fs[downloadList[1]]

\* The Update of feed f takes this step.
StepOf(f) == updater'[f] # updater[f]

\* C20: with the Updates of two different feeds interleaved in any way, a
\* step of the Update of one feed creates, changes or deletes no episode
\* record and no episode blob of the other feed, and what the store and the
\* file storage hold for a feed is at every point (so at the end) what its
\* Update leaves when its calls act on a store and a file storage of its own.
C20_FeedIndependence ==
    [][\A f \in FeedIDs :
        /\ StepOf(f) => \A g \in FeedIDs \ {f} :
                           feedDb'[g] = feedDb[g] /\ feedFs'[g] = feedFs[g]
        /\ feedDb'[f] = alone'[f].db
        /\ feedFs'[f] = alone'[f].fs]_vars

\* Both Updates are in their download loops at once; the one of feed A has
\* failed to download its 1st candidate, the one of feed B has stored the same
\* episode, and has returned after cleaning another episode of its feed.
C20_Witness ==
    /\ updater["A"].pc = "downloading"
    /\ updater["A"].idx = 2
    /\ updater["B"].pc = "done"
    /\ \E id \in FeedEpisodeIDs :
          /\ feedDb["A"][id].Status = EpisodeError
          /\ feedDb["B"][id].Status = EpisodeDownloaded
          /\ feedFs["A"][id] = 0
          /\ feedFs["B"][id] > 0
    /\ \E id \in FeedEpisodeIDs : feedDb["B"][id].Status = EpisodeCleaned

\* The New and Error episodes of the store: those the walk considers.
NewOrErrorEpisodes(store) ==
    {id \in Known(store) : store[id].Status \in {EpisodeNew, EpisodeError}}

\* The smaller of two numbers.
Min(a, b) == IF a < b THEN a ELSE b

PolicyOf(segment) ==
    LET c == feedConfig.SponsorBlockCategories
    IN  CASE segment.Category = "sponsor" -> c.Sponsors
          [] segment.Category = "intro" -> c.Intermissions
          [] segment.Category = "outro" -> c.Endcards
          [] segment.Category = "interaction" -> c.InteractionReminders
          [] segment.Category = "selfpromo" -> c.SelfPromotions
          [] segment.Category = "music_offtopic" -> c.NonmusicSections

CutList ==
    LET Cut(segment) == PolicyOf(segment) = "cut"
    IN  SelectSeq(segments, Cut)

\* The cursor (nextStart) after the first n cut segments.
CursorAfter(n) == IF n = 0 THEN 0 ELSE CutList[n].Segment[2]

\* C22: in the planner a segment whose category has policy keep contributes
\* no boundary and does not move the cursor; the i-th cut segment appends
\* [cursor, segment.start) and sets the cursor to segment.end; so the keep
\* list has exactly (number of cut segments + 1) intervals and always ends
\* with [cursor, -1].
C22_CategoryPolicy ==
    pc \in {"buildFilter", "ffmpeg"} =>
        /\ Len(keeps) = Len(CutList) + 1
        /\ \A i \in 1..Len(CutList) :
              keeps[i] = <<CursorAfter(i - 1), CutList[i].Segment[1]>>
        /\ keeps[Len(keeps)] = <<CursorAfter(Len(CutList)), -1>>

\* The planner ran over a kept segment followed by a cut one: two keeps, the
\* first one running over the kept segment up to the cut one.
C22_Witness ==
    /\ pc = "buildFilter"
    /\ Len(segments) = 2
    /\ PolicyOf(segments[1]) = "keep"
    /\ PolicyOf(segments[2]) = "cut"
    /\ segments[1].Segment[1] > 0
    /\ keeps = << <<0, segments[2].Segment[1]>>, <<segments[2].Segment[2], -1>> >>

\* C23: after any sequence of Update runs, including runs where calls of the
\* store, the storage or the downloader fail, every Downloaded episode has
\* its blob in storage and every Cleaned episode has none.
C23_StoreStorageConsistent ==
    pc = "done" =>
        \A id \in Known(db) :
            /\ db[id].Status = EpisodeDownloaded => fs[id] > 0
            /\ db[id].Status = EpisodeCleaned => fs[id] = 0

\* C24: every temporary media handle a successful Downloader.Download
\* returned has been closed (TempFile.Close) when downloadEpisodes returns,
\* on every exit path: the copy succeeding or failing, TempDir failing, the
\* transcoder failing to start or to run, the copy of the processed file
\* failing.
C24_TempFileClosed ==
    (Len(stages) >= 2 /\ stages[2].name = "downloadEpisodes") => openFiles = {}

\* The episode is New or Error in the store and passes the filters of the
\* fixed configuration.
Retryable(id) ==
    /\ db[id].Status \in {EpisodeNew, EpisodeError}
    /\ matchFilters(db[id], fixedConfig.Filters)

\* C25: with mode off, a positive page size and a remote listing that stays
\* as it is, once every call of the downloader, the store and the file
\* storage succeeds, every New or Error episode that passes the filters is
\* eventually Downloaded as Update is called again and again.
C25_EventualDownload ==
    \A id \in EpisodeIDs :
        (healthy /\ Retryable(id)) ~> (db[id].Status = EpisodeDownloaded)

\* LoadConfig has returned: the Config, or the error of validate.
Loaded == pc = "loaded"
Rejected == pc = "rejected"

\* C26: whenever applyDefaults followed by validate accepts a configuration,
\* every feed's effective SponsorblockMode is one of off, require, delay,
\* requiredelay (never empty, never "default"); a feed mode that is empty or
\* "default" resolves to the global default mode; an unset global default
\* mode means off; a global default mode that is "default" or no mode at all
\* is rejected.
C26_ModeResolution ==
    /\ Loaded =>
        /\ \A i \in DOMAIN cfg.Feeds :
              /\ cfg.Feeds[i].SponsorblockMode \in {"off", "require", "delay", "requiredelay"}
              /\ cfgInput.Feeds[i].SponsorblockMode \in {"", "default"}
                    => cfg.Feeds[i].SponsorblockMode = cfg.SponsorBlock.DefaultMode
        /\ cfgInput.SponsorBlock.DefaultMode = "" => cfg.SponsorBlock.DefaultMode = "off"
    /\ (Loaded \/ Rejected) =>
        (cfgInput.SponsorBlock.DefaultMode \notin {"", "off", "require", "delay", "requiredelay"}
            => Rejected)

\* A configuration with no global default mode, one feed with mode "default"
\* and one with none was accepted: both feeds have mode off.
C26_Witness ==
    /\ Loaded
    /\ cfgInput.SponsorBlock.DefaultMode = ""
    /\ Len(cfg.Feeds) = 2
    /\ cfgInput.Feeds[1].SponsorblockMode = "default"
    /\ cfgInput.Feeds[2].SponsorblockMode = ""
    /\ cfg.Feeds[1].SponsorblockMode = "off"
    /\ cfg.Feeds[2].SponsorblockMode = "off"

====
